---- MODULE Spec2Model ----
(***************************************************************************)
(* StructuraML directive interpreter (src/design/python_interpretation.py) *)
(* as a state machine.  A script line is a sequence of tokens; the call    *)
(* stack of _parse_and_execute_block is the variable stack.  Indices i,    *)
(* start_index, next_i are 0-based as in the source: the line at index i   *)
(* of a Python list is lines[i + 1] here.                                  *)
(***************************************************************************)
EXTENDS Integers, Sequences, FiniteSets, TLC

\* ------------------------------------------------------------------ bounds
MaxLines == 7       \* longest well-formed control-flow script drawn by Init
MaxRaw == 3         \* longest arbitrary (possibly malformed) script
MaxIncMain == 2    \* longest main script of the include scenarios
MaxIncSub == 2      \* longest included script of the include scenarios
MaxDepth == 4       \* call depth at which Python raises RecursionError
MaxVar == 4         \* longest script of the variable-store scenarios
MaxCond == 5        \* longest script of the failing-condition scenarios
MaxBad == 2         \* longest script of the malformed-directive scenarios
MaxExpr == 3        \* longest script of the expression scenarios
MaxTerm == 3        \* longest script of the termination scenarios
MaxGrow == 4        \* longest script of the in-place growth scenarios
MaxList == 6        \* longest list x.append(1) builds before the run is cut
MaxRuns == 2        \* calls of execute on one interpreter (second specification)

\* ------------------------------------------------------------------ values
\* A Python value: a tag and its content as a sequence of text tokens.
Val(t, d) == [t |-> t, d |-> d]

Names == {"i", "x"}
Idents == Names \cup {"true", "false"}
Atoms == {"0", "1", "2", "9"}

\* str(value)
RECURSIVE CommaJoin(_)
CommaJoin(d) ==
  IF Len(d) = 0 THEN <<>>
  ELSE IF Len(d) = 1 THEN d
  ELSE <<d[1], ",">> \o CommaJoin(Tail(d))

Str(v) == IF v.t = "list" THEN <<"[">> \o CommaJoin(v.d) \o <<"]">> ELSE v.d

\* bool(value)
Truthy(v) ==
  CASE v.t = "bool" -> v.d = <<"True">>
    [] v.t = "num" -> v.d # <<"0">>
    [] v.t = "none" -> FALSE
    [] OTHER -> v.d # <<>>

\* the elements `for item in collection` yields
Items(v) ==
  [k \in 1..Len(v.d) |-> IF v.t = "list" THEN Val("num", <<v.d[k]>>)
                                          ELSE Val("str", <<v.d[k]>>)]

\* isinstance(collection, (list, dict, str))
IsIterable(v) == v.t \in {"list", "dict", "str"}

\* eval(expression, {"__builtins__": None}, self.variables) on the expression
\* forms the scripts of this model use; err = "" when no exception is raised.
EvalOk(v) == [err |-> "", v |-> v]
EvalErr(e) == [err |-> e, v |-> Val("none", <<"None">>)]

Eval(expr, store) ==
  IF Len(expr) # 1 THEN EvalErr("SyntaxError")
  ELSE LET e == expr[1] IN
    CASE e = "True" -> EvalOk(Val("bool", <<"True">>))
      [] e = "False" -> EvalOk(Val("bool", <<"False">>))
      [] e = "None" -> EvalOk(Val("none", <<"None">>))
      [] e \in Atoms -> EvalOk(Val("num", <<e>>))
      [] e = "[1,2]" -> EvalOk(Val("list", <<"1", "2">>))
      [] e = "[]" -> EvalOk(Val("list", <<>>))
      [] e = "{\"a\":1}" -> EvalOk(Val("dict", <<"a">>))
      [] e = "'ab'" -> EvalOk(Val("str", <<"a", "b">>))
      [] e = "1/0" -> EvalErr("ZeroDivisionError")
      [] e = "().__class__" -> EvalOk(Val("host", <<"<class 'tuple'>">>))
      [] e = "x.append(1)" ->
           IF "x" \notin DOMAIN store THEN EvalErr("NameError")
           ELSE IF store["x"].t = "list" THEN EvalOk(Val("none", <<"None">>))
           ELSE EvalErr("AttributeError")
      [] e \in Idents -> IF e \in DOMAIN store THEN EvalOk(store[e])
                                               ELSE EvalErr("NameError")
      [] OTHER -> EvalErr("SyntaxError")

\* eval runs the host's list.append: the list object bound to x grows in
\* place.  InPlace says the expression does so, EvalStore is the store after
\* the evaluation.
InPlace(expr, store) ==
  /\ expr = <<"x.append(1)">>
  /\ "x" \in DOMAIN store
  /\ store["x"].t = "list"

EvalStore(expr, store) ==
  IF InPlace(expr, store)
  THEN [store EXCEPT !["x"] = Val("list", Append(store["x"].d, "1"))]
  ELSE store

\* self.variables[name] = value
StoreSet(store, name, value) ==
  [n \in (DOMAIN store) \cup {name} |-> IF n = name THEN value ELSE store[n]]

\* ------------------------------------------------------------ interpolation
\* The tokens the regex \{([^{}]+)\} matches, and the expression inside.
SpanToks == {"{i}", "{x}", "{\"a\":1}"}
SpanExpr(tok) ==
  CASE tok = "{i}" -> <<"i">>
    [] tok = "{x}" -> <<"x">>
    [] tok = "{\"a\":1}" -> <<"\"a\":1">>
Placeholder(tok) ==
  CASE tok = "{i}" -> "{UNDEFINED_OR_INVALID_VAR:i}"
    [] tok = "{x}" -> "{UNDEFINED_OR_INVALID_VAR:x}"
    [] tok = "{\"a\":1}" -> "{UNDEFINED_OR_INVALID_VAR:\"a\":1}"

replace_match(tok, store) ==
  LET r == Eval(SpanExpr(tok), store)
  IN IF r.err = "" THEN Str(r.v) ELSE <<Placeholder(tok)>>

RECURSIVE interpolate_variables(_, _)
interpolate_variables(text, store) ==
  IF text = <<>> THEN <<>>
  ELSE (IF Head(text) \in SpanToks THEN replace_match(Head(text), store)
                                   ELSE <<Head(text)>>)
       \o interpolate_variables(Tail(text), store)

evaluate_condition(condition, store) ==
  LET r == Eval(condition, store)
  IN IF r.err = "" THEN Truthy(r.v) ELSE FALSE

\* ------------------------------------------------------------------- lines
\* str.startswith on a stripped line: the keywords that are textual
\* prefixes of the line's first token.
PrefixesOf(tok) ==
  CASE tok = "@elseif" -> {"@", "@else", "@elseif"}
    [] tok \in {"@set", "@log", "@include", "@if", "@else", "@endif",
                "@foreach", "@endforeach", "@bogus", "@prompt"} -> {"@", tok}
    [] OTHER -> {}

startswith(line, prefix) == line # <<>> /\ prefix \in PrefixesOf(line[1])

Rest(line, k) == SubSeq(line, k, Len(line))

IsWord(tok) == tok \in Idents \cup Atoms

\* "PATH" tokens of @include and the relative path they spell;
\* ".." is the parent directory.
PathToks == {"\"b\"", "\"c\"", "\"s/b\"", "\"../main\"", "\"../c\""}
PathOf(tok) ==
  CASE tok = "\"b\"" -> <<"b">>
    [] tok = "\"c\"" -> <<"c">>
    [] tok = "\"s/b\"" -> <<"s", "b">>
    [] tok = "\"../main\"" -> <<"..", "main">>
    [] tok = "\"../c\"" -> <<"..", "c">>

\* os.path: directories and files are sequences of components from the root.
Dirs == {<<>>, <<"s">>}
RECURSIVE normpath(_, _)
normpath(done, todo) ==
  IF todo = <<>> THEN done
  ELSE IF Head(todo) = ".."
       THEN normpath(IF done = <<>> THEN <<>> ELSE SubSeq(done, 1, Len(done) - 1),
                     Tail(todo))
       ELSE normpath(Append(done, Head(todo)), Tail(todo))
join(base_dir, rel) == base_dir \o rel
abspath(p) == normpath(<<>>, p)
dirname(p) == IF p = <<>> THEN <<>> ELSE SubSeq(p, 1, Len(p) - 1)

\* _get_block_lines(all_lines, start_index, *end_directives)
RECURSIVE get_block_scan(_, _, _, _)
get_block_scan(all_lines, current_index, end_directives, block_lines) ==
  IF current_index < Len(all_lines)
  THEN IF \E d \in end_directives : startswith(all_lines[current_index + 1], d)
       THEN [block_lines |-> block_lines, next_i |-> current_index + 1,
             found |-> TRUE]
       ELSE get_block_scan(all_lines, current_index + 1, end_directives,
                           Append(block_lines, all_lines[current_index + 1]))
  ELSE [block_lines |-> block_lines, next_i |-> current_index, found |-> FALSE]

get_block_lines(all_lines, start_index, end_directives) ==
  get_block_scan(all_lines, start_index, end_directives, <<>>)

\* The skip loop of a false @if / @elseif: the value of i the loop leaves,
\* before the i += 1 at the bottom of the dispatch loop.
RECURSIVE skip_scan(_, _, _)
skip_scan(lines, block_start_index, end_directives) ==
  IF block_start_index < Len(lines)
  THEN IF \E d \in end_directives : startswith(lines[block_start_index + 1], d)
       THEN block_start_index - 1
       ELSE skip_scan(lines, block_start_index + 1, end_directives)
  ELSE Len(lines)

\* ------------------------------------------------------------------- state
VARIABLES
  fs,             \* the files on disk: absolute path -> lines (never written)
  pc,             \* "idle" (constructed), "running" (inside execute), "done"
  variables,      \* self.variables
  output_buffer,  \* self.output_buffer
  stack,          \* active calls of _parse_and_execute_block, innermost last
  result,         \* what execute returned
  trace           \* history: one event per handler that ran

vars == <<fs, pc, variables, output_buffer, stack, result, trace>>

MainPath == <<"main">>

\* What a caller frame is waiting for while its recursive call runs.
NoWait ==
  [kind |-> "none", next_i |-> 0, loop_var |-> "", rest |-> <<>>,
   block_lines |-> <<>>, cur |-> Val("none", <<"None">>), dirty |-> FALSE,
   live |-> ""]

\* One call of _parse_and_execute_block(lines, base_dir).  file and off are
\* history: the file the lines were read from and the 0-based position of
\* lines[0] in it.
Frame(lines, base_dir, file, off) ==
  [lines |-> lines, base_dir |-> base_dir, i |-> 0, wait |-> NoWait,
   file |-> file, off |-> off]

top == stack[Len(stack)]
line == top.lines[top.i + 1]
stripped_line == line
interpolated_line == interpolate_variables(stripped_line, variables)

AtLine == pc = "running" /\ stack # <<>> /\ top.i < Len(top.lines)

\* The branch of the if/elif chain of the dispatch loop a line takes.
Directive(il) ==
  IF startswith(il, "@set") THEN "set"
  ELSE IF startswith(il, "@log") THEN "log"
  ELSE IF startswith(il, "@include") THEN "include"
  ELSE IF startswith(il, "@if") THEN "if"
  ELSE IF startswith(il, "@elseif") THEN "elseif"
  ELSE IF startswith(il, "@else") THEN "else"
  ELSE IF startswith(il, "@endif") THEN "endif"
  ELSE IF startswith(il, "@foreach") THEN "foreach"
  ELSE IF startswith(il, "@endforeach") THEN "endforeach"
  ELSE "other"

Handles(kind) == AtLine /\ stripped_line # <<>> /\ Directive(interpolated_line) = kind

Event(op, r) ==
  [op |-> op, f |-> top.file, n |-> top.off + top.i + 1, r |-> r,
   env |-> variables]

\* the stack with the innermost frame's i replaced
SetI(stk, new_i) == [stk EXCEPT ![Len(stk)].i = new_i]

\* History: a write to name makes every enclosing loop over name dirty.
\* The write also binds name to another object: a loop that iterates the
\* list name was bound to no longer sees what is done to name.
MarkDirty(stk, name) ==
  [k \in 1..Len(stk) |->
     IF stk[k].wait.kind = "foreach"
     THEN [stk[k] EXCEPT
             !.wait.dirty = @ \/ stk[k].wait.loop_var = name,
             !.wait.live = IF @ = name THEN "" ELSE @]
     ELSE stk[k]]

\* `for item in collection` (line 326) iterates the list object itself: what
\* an evaluation appends to that object is still to come in every loop that
\* iterates it.
Extend(stk, expr, store) ==
  [k \in 1..Len(stk) |->
     IF InPlace(expr, store) /\ stk[k].wait.kind = "foreach"
                            /\ stk[k].wait.live = "x"
     THEN [stk[k] EXCEPT !.wait.rest = Append(@, Val("num", <<"1">>))]
     ELSE stk[k]]

\* An exception leaves the innermost frame and propagates through its
\* callers: the try of @include (line 260) and the try of @foreach (line 336)
\* catch it, a block call of @if/@elseif/@else does not.
Catchers(stk) ==
  {k \in 1..(Len(stk) - 1) : stk[k].wait.kind \in {"include", "foreach"}}

Caught(stk) ==
  LET k == CHOOSE c \in Catchers(stk) : \A d \in Catchers(stk) : d <= c
      fr == stk[k]
  IN Append(SubSeq(stk, 1, k - 1),
            [fr EXCEPT !.wait = NoWait,
                       !.i = IF fr.wait.kind = "include" THEN fr.i + 1
                             ELSE get_block_lines(fr.lines, fr.i + 1,
                                                  {"@endforeach"}).next_i])

\* the effect of an exception raised in the innermost frame, outside its
\* own try blocks
Raise(stk, ev) ==
  /\ trace' = Append(trace, ev)
  /\ IF Catchers(stk) = {}
     THEN /\ stack' = <<>>
          /\ pc' = "done"
          /\ result' = [kind |-> "error", text |-> <<>>]
     ELSE /\ stack' = Caught(stk)
          /\ UNCHANGED <<pc, result>>

\* the recursive call self._parse_and_execute_block(block_lines, base_dir)
\* made by a handler that is not inside a try
CallBlock(stk, block_lines, wait, ev) ==
  IF Len(stk) >= MaxDepth
  THEN Raise(stk, [ev EXCEPT !.r = "RecursionError"])
  ELSE /\ stack' = Append([stk EXCEPT ![Len(stk)].wait = wait],
                          Frame(block_lines, top.base_dir, top.file,
                                top.off + top.i + 1))
       /\ trace' = Append(trace, ev)
       /\ UNCHANGED <<pc, result>>

\* ----------------------------------------------------------------- actions
\* execute(file_path), up to its call of _parse_and_execute_block
execute ==
  /\ pc = "idle"
  /\ MainPath \in DOMAIN fs
  /\ output_buffer' = <<>>
  /\ stack' = <<Frame(fs[MainPath], dirname(abspath(MainPath)), MainPath, 0)>>
  /\ pc' = "running"
  /\ trace' = Append(trace, [op |-> "execute", f |-> MainPath, n |-> 0,
                             r |-> "", env |-> variables])
  /\ UNCHANGED <<fs, variables, result>>

\* a later call of execute(file_path) on the same interpreter
Runs == Cardinality({t \in 1..Len(trace) : trace[t].op = "execute"})

execute_again ==
  /\ pc = "done"
  /\ Runs < MaxRuns
  /\ MainPath \in DOMAIN fs
  /\ output_buffer' = <<>>
  /\ stack' = <<Frame(fs[MainPath], dirname(abspath(MainPath)), MainPath, 0)>>
  /\ pc' = "running"
  /\ trace' = Append(trace, [op |-> "execute", f |-> MainPath, n |-> 0,
                             r |-> "", env |-> variables])
  /\ UNCHANGED <<fs, variables, result>>

\* a blank line
SkipBlank ==
  /\ AtLine
  /\ stripped_line = <<>>
  /\ stack' = SetI(stack, top.i + 1)
  /\ trace' = Append(trace, Event("blank", ""))
  /\ UNCHANGED <<fs, pc, variables, output_buffer, result>>

StrLits == PathToks \cup {"\"hello\"", "\"@endif\""}
Unquote(tok) ==
  IF tok \in PathToks THEN PathOf(tok)
  ELSE IF tok = "\"@endif\"" THEN <<"@endif">> ELSE <<"hello">>

\* The Completion Provider (self.llm_api): whatever the prompt, it answers
\* with one of these texts.
ResponseIds == {"fenced_json", "bare_json", "text", "fenced_text", "inner_fence"}
Response(id) ==
  CASE id = "fenced_json" -> <<"[fence]json", "[1,2]", "[fence]">>
    [] id = "bare_json" -> <<"[1,2]">>
    [] id = "text" -> <<"hello">>
    [] id = "fenced_text" -> <<"[fence]json", "hello", "[fence]">>
    [] id = "inner_fence" -> <<"[1,", "[fence]", "2", "[fence]", "]">>

\* The re.sub(...).strip() of line 213: every opening fence (three backticks,
\* with or without "json") that has a closing fence after it loses both,
\* wherever it stands in the text.  "[fence]" is the token of three
\* backticks.
FenceOpen == {"[fence]json", "[fence]"}
RECURSIVE strip_fences(_)
strip_fences(text) ==
  IF text = <<>> THEN <<>>
  ELSE IF Head(text) \in FenceOpen /\ \E k \in 2..Len(text) : text[k] = "[fence]"
  THEN LET k == CHOOSE c \in 2..Len(text) :
                  text[c] = "[fence]" /\ \A j \in 2..(c - 1) : text[j] # "[fence]"
       IN SubSeq(text, 2, k - 1) \o strip_fences(SubSeq(text, k + 1, Len(text)))
  ELSE <<Head(text)>> \o strip_fences(Tail(text))

\* json.loads on the texts above
json_loads(text) ==
  IF text = <<"[1,2]">> \/ text = <<"[1,", "2", "]">>
  THEN EvalOk(Val("list", <<"1", "2">>))
  ELSE IF Len(text) = 1 /\ text[1] \in Atoms THEN EvalOk(Val("num", text))
  ELSE EvalErr("JSONDecodeError")

\* @set NAME = VALUE and @set NAME = @prompt ...  The regex of line 172
\* matches every text that starts with @prompt, so line 223 is never
\* reached; the prompt text, max_token and temperature only travel to the
\* provider.  A run that keeps appending to a list is followed until the
\* list has MaxList elements.
DoSet ==
  /\ Handles("set")
  /\ InPlace(Rest(interpolated_line, 4), variables)
       => Len(variables["x"].d) < MaxList
  /\ LET il == interpolated_line
         match == Len(il) >= 3 /\ IsWord(il[2]) /\ il[3] = "="
         var_name == il[2]
         value_expression == Rest(il, 4)
         r == Eval(value_expression, variables)
         bind(v) ==
           /\ variables' = StoreSet(variables, var_name, v)
           /\ stack' = SetI(MarkDirty(stack, var_name), top.i + 1)
           /\ trace' = Append(trace, Event("set", var_name))
           /\ UNCHANGED <<pc, result>>
     IN IF ~match
        THEN /\ stack' = SetI(stack, top.i + 1)
             /\ trace' = Append(trace, Event("set", "malformed"))
             /\ UNCHANGED <<pc, variables, result>>
        ELSE IF Len(value_expression) = 1 /\ value_expression[1] \in StrLits
        THEN bind(Val("str", Unquote(value_expression[1])))
        ELSE IF startswith(value_expression, "@prompt")
        THEN \E id \in ResponseIds :
               LET llm_response == Response(id)
                   do_json_decode ==
                     value_expression[Len(value_expression)] = "json_decode=true"
                   decoded == json_loads(strip_fences(llm_response))
               IN /\ variables' =
                       StoreSet(variables, var_name,
                                IF do_json_decode /\ decoded.err = ""
                                THEN decoded.v ELSE Val("str", llm_response))
                  /\ stack' = SetI(MarkDirty(stack, var_name), top.i + 1)
                  /\ trace' = Append(trace, Event("prompt", id))
                  /\ UNCHANGED <<pc, result>>
        ELSE IF r.err = ""
        THEN /\ variables' = StoreSet(EvalStore(value_expression, variables),
                                      var_name, r.v)
             /\ stack' = SetI(MarkDirty(Extend(stack, value_expression, variables),
                                        var_name), top.i + 1)
             /\ trace' = Append(trace, Event("set", var_name))
             /\ UNCHANGED <<pc, result>>
        ELSE IF r.err \in {"NameError", "SyntaxError", "TypeError", "IndexError"}
        THEN bind(Val("str", value_expression))
        ELSE /\ Raise(stack, Event("set", r.err))
             /\ UNCHANGED variables
  /\ UNCHANGED <<fs, output_buffer>>

\* a buffer that takes each new entry at its front
prepend(buf, entry) == <<entry>> \o buf

\* self.output_buffer.append(...)
append(buf, entry) == Append(buf, entry)

\* @log TEXT
DoLog ==
  /\ Handles("log")
  /\ output_buffer' = append(output_buffer, Rest(interpolated_line, 2))
  /\ stack' = SetI(stack, top.i + 1)
  /\ trace' = Append(trace, Event("log", ""))
  /\ UNCHANGED <<fs, pc, variables, result>>

\* an included file that keeps resolving against the top-level script's
\* directory
IncludeBaseOfMain(include_path) == dirname(abspath(MainPath))

\* the base_dir handed to the included file's lines (line 257)
IncludeBase(include_path) == dirname(abspath(include_path))

\* @include "PATH"
DoInclude ==
  /\ Handles("include")
  /\ LET il == interpolated_line
         match == Len(il) >= 2 /\ il[2] \in PathToks
         include_path == join(top.base_dir, PathOf(il[2]))
         target == abspath(include_path)
     IN IF ~match
        THEN /\ stack' = SetI(stack, top.i + 1)
             /\ trace' = Append(trace, Event("include", "malformed"))
        ELSE IF target \notin DOMAIN fs
        THEN /\ stack' = SetI(stack, top.i + 1)
             /\ trace' = Append(trace, Event("include", "missing"))
        ELSE IF Len(stack) >= MaxDepth
        THEN /\ stack' = SetI(stack, top.i + 1)
             /\ trace' = Append(trace, Event("include", "RecursionError"))
        ELSE /\ stack' = Append([stack EXCEPT ![Len(stack)].wait =
                                   [NoWait EXCEPT !.kind = "include"]],
                                Frame(fs[target], IncludeBase(include_path),
                                      target, 0))
             /\ trace' = Append(trace, Event("include", "entered"))
  /\ UNCHANGED <<fs, pc, variables, output_buffer, result>>

\* @if COND and @elseif COND
Branch(kind, end_directives) ==
  /\ Handles(kind)
  /\ LET condition == Rest(interpolated_line, 2)
         gb == get_block_lines(top.lines, top.i + 1, end_directives)
     IN IF evaluate_condition(condition, variables)
        THEN CallBlock(stack, gb.block_lines,
                       [NoWait EXCEPT !.kind = "block", !.next_i = gb.next_i],
                       Event(kind, "true"))
        ELSE /\ stack' = SetI(stack, skip_scan(top.lines, top.i + 1,
                                               end_directives) + 1)
             /\ trace' = Append(trace, Event(kind, "false"))
             /\ UNCHANGED <<pc, result>>
  /\ UNCHANGED <<fs, variables, output_buffer>>

DoIf == Branch("if", {"@else", "@elseif", "@endif"})

DoElseIf == Branch("elseif", {"@else", "@endif"})

\* @else
DoElse ==
  /\ Handles("else")
  /\ LET gb == get_block_lines(top.lines, top.i + 1, {"@endif"})
     IN CallBlock(stack, gb.block_lines,
                  [NoWait EXCEPT !.kind = "block", !.next_i = gb.next_i],
                  Event("else", ""))
  /\ UNCHANGED <<fs, variables, output_buffer>>

\* @endif
DoEndIf ==
  /\ Handles("endif")
  /\ stack' = SetI(stack, top.i + 1)
  /\ trace' = Append(trace, Event("endif", ""))
  /\ UNCHANGED <<fs, pc, variables, output_buffer, result>>

\* every iteration starting from a store of its own that holds only the
\* loop variable
BindLoopVarFresh(store, loop_var, item) == [n \in {loop_var} |-> item]

\* a loop variable kept in a scope of its own, never written to the store
BindLoopVarLocal(store, loop_var, item) == store

\* self.variables[loop_var] = item, at the start of an iteration
BindLoopVar(store, loop_var, item) == StoreSet(store, loop_var, item)

\* the caller's frame while the body runs for item, with rest still to come
LoopWait(loop_var, item, rest, gb, live) ==
  [kind |-> "foreach", next_i |-> gb.next_i, loop_var |-> loop_var,
   rest |-> rest, block_lines |-> gb.block_lines, cur |-> item,
   dirty |-> FALSE, live |-> live]

\* the name whose list object a loop over collection_expression iterates:
\* a bare name bound to a list, unless the loop variable rebinds that name
Live(collection_expression, loop_var, store) ==
  IF /\ Len(collection_expression) = 1
     /\ collection_expression[1] \in Names \ {loop_var}
     /\ collection_expression[1] \in DOMAIN store
     /\ store[collection_expression[1]].t = "list"
  THEN collection_expression[1] ELSE ""

\* @foreach VAR in EXPR
DoForeach ==
  /\ Handles("foreach")
  /\ LET il == interpolated_line
         match == /\ Len(il) >= 3
                  /\ IsWord(il[2])
                  /\ il[3] = "in"
                  /\ Len(il) >= 4 \/ Len(stripped_line) >= 4
         loop_var == il[2]
         collection_expression == Rest(il, 4)
         r == Eval(collection_expression, variables)
         gb == get_block_lines(top.lines, top.i + 1, {"@endforeach"})
         items == Items(r.v)
         skip(why) ==
           /\ stack' = SetI(stack, gb.next_i)
           /\ trace' = Append(trace, Event("foreach", why))
           /\ UNCHANGED variables
     IN IF ~match
        THEN /\ stack' = SetI(stack, top.i + 1)
             /\ trace' = Append(trace, Event("foreach", "malformed"))
             /\ UNCHANGED variables
        ELSE IF r.err # "" THEN skip(r.err)
        ELSE IF ~IsIterable(r.v) THEN skip("not iterable")
        ELSE IF Len(items) = 0 THEN skip("empty")
        ELSE /\ variables' = BindLoopVar(variables, loop_var, items[1])
             /\ IF Len(stack) >= MaxDepth
                THEN /\ stack' = SetI(MarkDirty(stack, loop_var), gb.next_i)
                     /\ trace' = Append(trace, Event("foreach", "RecursionError"))
                ELSE /\ stack' =
                          Append([MarkDirty(stack, loop_var)
                                    EXCEPT ![Len(stack)].wait =
                                      LoopWait(loop_var, items[1], Tail(items), gb,
                                               Live(collection_expression,
                                                    loop_var, variables))],
                                 Frame(gb.block_lines, top.base_dir, top.file,
                                       top.off + top.i + 1))
                     /\ trace' = Append(trace, Event("foreach", "loop"))
  /\ UNCHANGED <<fs, pc, output_buffer, result>>

\* @endforeach
DoEndForeach ==
  /\ Handles("endforeach")
  /\ stack' = SetI(stack, top.i + 1)
  /\ trace' = Append(trace, Event("endforeach", ""))
  /\ UNCHANGED <<fs, pc, variables, output_buffer, result>>

\* any other line: a literal line, or an unknown directive
DoLiteral ==
  /\ Handles("other")
  /\ IF ~startswith(stripped_line, "@")
     THEN output_buffer' = append(output_buffer, interpolated_line)
     ELSE UNCHANGED output_buffer
  /\ stack' = SetI(stack, top.i + 1)
  /\ trace' = Append(trace, Event("literal", ""))
  /\ UNCHANGED <<fs, pc, variables, result>>

\* "\n".join(self.output_buffer)
RECURSIVE NewlineJoin(_)
NewlineJoin(buf) ==
  IF buf = <<>> THEN <<>>
  ELSE IF Len(buf) = 1 THEN buf[1]
  ELSE buf[1] \o <<"\n">> \o NewlineJoin(Tail(buf))

\* while i < len(lines) ends: the call returns to its caller, which resumes
Return ==
  /\ pc = "running"
  /\ stack # <<>>
  /\ top.i >= Len(top.lines)
  /\ IF Len(stack) = 1
     THEN /\ stack' = <<>>
          /\ pc' = "done"
          /\ result' = [kind |-> "ok", text |-> NewlineJoin(output_buffer)]
          /\ trace' = Append(trace, Event("return", "execute"))
          /\ UNCHANGED variables
     ELSE LET callers == SubSeq(stack, 1, Len(stack) - 1)
              caller == callers[Len(callers)]
              w == caller.wait
          IN /\ UNCHANGED <<pc, result>>
             /\ IF w.kind = "foreach" /\ w.rest # <<>>
                THEN /\ variables' = BindLoopVar(variables, w.loop_var, Head(w.rest))
                     /\ stack' =
                          Append([MarkDirty(callers, w.loop_var)
                                    EXCEPT ![Len(callers)].wait =
                                      [w EXCEPT !.rest = Tail(w.rest),
                                                !.cur = Head(w.rest),
                                                !.dirty = FALSE]],
                                 [top EXCEPT !.i = 0])
                     /\ trace' = Append(trace, Event("return", "next"))
                ELSE /\ stack' =
                          [callers EXCEPT ![Len(callers)].wait = NoWait,
                                          ![Len(callers)].i =
                                             IF w.kind = "include"
                                             THEN caller.i + 1 ELSE w.next_i]
                     /\ trace' = Append(trace, Event("return", w.kind))
                     /\ UNCHANGED variables
  /\ UNCHANGED <<fs, output_buffer>>

\* -------------------------------------------------------------- the inputs
Lit == <<"X", "{i}">>
IfLines == {<<"@if", "True">>, <<"@if", "False">>}
ElseIfLines == {<<"@elseif", "True">>, <<"@elseif", "False">>}
ElseLine == <<"@else">>
EndIfLine == <<"@endif">>
ForeachLines == {<<"@foreach", "i", "in", "[1,2]">>}
EndForeachLine == <<"@endforeach">>

\* Properly nested scripts, by number of lines: table[n + 1].wf is the set
\* of scripts of exactly n lines, table[n + 1].tail the continuations of an
\* @if chain after a branch body (sibling branches, @endif, what follows).
NestedLevel(table, n) ==
  LET wf(m) == table[m + 1].wf
      tail(m) == table[m + 1].tail
  IN IF n = 0 THEN [wf |-> {<<>>}, tail |-> {}]
     ELSE [wf |->
             {<<Lit>> \o r : r \in wf(n - 1)}
             \cup UNION {{<<f>> \o b \o <<EndForeachLine>> \o r :
                            f \in ForeachLines, b \in wf(k), r \in wf(n - 2 - k)} :
                         k \in 0..(n - 2)}
             \cup UNION {{<<c>> \o b \o t :
                            c \in IfLines, b \in wf(k), t \in tail(n - 1 - k)} :
                         k \in 0..(n - 2)},
           tail |->
             {<<EndIfLine>> \o r : r \in wf(n - 1)}
             \cup UNION {{<<ElseLine>> \o b \o <<EndIfLine>> \o r :
                            b \in wf(k), r \in wf(n - 2 - k)} : k \in 0..(n - 2)}
             \cup UNION {{<<e>> \o b \o t :
                            e \in ElseIfLines, b \in wf(k), t \in tail(n - 1 - k)} :
                         k \in 0..(n - 2)}]

RECURSIVE NestedTable(_, _)
NestedTable(table, n) ==
  IF n > MaxLines - 1 THEN table
  ELSE NestedTable(Append(table, NestedLevel(table, n)), n + 1)

Shorter == NestedTable(<<>>, 0)

OneFile(script) == [p \in {MainPath} |-> script]

\* the only file is a properly nested main script of exactly n >= 1 lines
NestedFile(n) ==
  LET wf(m) == Shorter[m + 1].wf
      tail(m) == Shorter[m + 1].tail
  IN \/ \E r \in wf(n - 1) : fs = OneFile(<<Lit>> \o r)
     \/ \E k \in 0..(n - 2) :
          \E f \in ForeachLines, b \in wf(k), r \in wf(n - 2 - k) :
            fs = OneFile(<<f>> \o b \o <<EndForeachLine>> \o r)
     \/ \E k \in 0..(n - 2) :
          \E c \in IfLines, b \in wf(k), t \in tail(n - 1 - k) :
            fs = OneFile(<<c>> \o b \o t)

\* all sequences of at most n lines over an alphabet
RECURSIVE SeqsUpTo(_, _)
SeqsUpTo(alphabet, n) ==
  IF n = 0 THEN {<<>>}
  ELSE LET shorter == SeqsUpTo(alphabet, n - 1)
       IN shorter \cup {Append(s, l) : s \in shorter, l \in alphabet}

RawLines ==
  {<<"@if", "True">>, <<"@if", "False">>, Lit, <<>>, ElseLine, EndIfLine, EndForeachLine,
   <<"@foreach", "i", "in", "[1,2]">>, <<"@foreach", "i", "in", "[]">>,
   <<"@foreach", "i", "in", "9">>,
   <<"@set", "i", "=", "9">>, <<"@set", "x", "=", "1/0">>}

RawScripts == SeqsUpTo(RawLines, MaxRaw)

\* Include scenarios: /main, /s/b, /s/c and /c exist, /b and /s/main do not.
IncMainLines ==
  {<<"@include", "\"s/b\"">>, <<"@include", "\"c\"">>, <<"@include", "\"b\"">>,
   <<"@if", "True">>, Lit}
IncSubLines ==
  {<<"@include", "\"c\"">>, <<"@include", "\"../main\"">>,
   <<"@foreach", "i", "in", "[1,2]">>}

Tree(main, sub) ==
  [p \in {MainPath, <<"s", "b">>, <<"s", "c">>, <<"c">>} |->
     IF p = MainPath THEN main
     ELSE IF p = <<"s", "b">> THEN sub
     ELSE IF p = <<"s", "c">> THEN <<<<"@log", "in", "s/c">>>>
     ELSE <<<<"@log", "in", "c">>>>]

RawFileSystems == {OneFile(s) : s \in RawScripts}

\* Variable-store scenarios: bindings made inside blocks, read by literal
\* lines; a string value that spells a directive keyword.
VarLines ==
  {<<"@set", "x", "=", "\"hello\"">>, <<"@set", "x", "=", "\"@endif\"">>,
   <<"{x}", "{i}">>, <<"@if", "True">>, EndIfLine,
   <<"@foreach", "i", "in", "[1,2]">>}
VarFileSystems == {OneFile(s) : s \in SeqsUpTo(VarLines, MaxVar)}

\* Conditions over a variable that is never bound.
CondLines == {<<"@if", "i">>, <<"@elseif", "i">>, EndIfLine, Lit}
CondFileSystems == {OneFile(s) : s \in SeqsUpTo(CondLines, MaxCond)}

\* Directive lines outside the grammar, @prompt values, and an expression
\* that only the host evaluator accepts.
BadLines ==
  {<<"@set", "x">>, <<"@include", "b">>, <<"@foreach", "i">>,
   <<"@set", "x", "=", "@prompt", "json_decode=maybe">>,
   <<"@set", "x", "=", "@prompt", "\"hello\"", "json_decode=true">>,
   <<"@set", "x", "=", "().__class__">>}
\* scripts that bind a name to the value of an expression and render it
ExprLines ==
  {<<"@set", "x", "=", "{\"a\":1}">>, <<"@set", "x", "=", "[1,2]">>,
   <<"@set", "x", "=", "i">>, <<"@set", "i", "=", "9">>,
   <<"X", "{x}">>}
ExprFileSystems == {OneFile(s) : s \in SeqsUpTo(ExprLines, MaxExpr)}

\* control-flow scripts of any shape, terminators missing or stray, whose
\* conditions are false before a loop binds i and true inside it
TermLines ==
  {<<"@if", "i">>, <<"@elseif", "i">>, ElseLine, EndIfLine,
   <<"@foreach", "i", "in", "[1,2]">>, EndForeachLine, <<>>,
   <<"@log", "X", "{i}">>}
TermFileSystems == {OneFile(s) : s \in SeqsUpTo(TermLines, MaxTerm)}

\* In-place growth scenarios: a loop over the list bound to x whose body
\* appends to that list through the host evaluator.
GrowLines ==
  {<<"@set", "x", "=", "[1,2]">>, <<"@foreach", "i", "in", "x">>,
   <<"@set", "i", "=", "x.append(1)">>, EndForeachLine}
GrowFileSystems == {OneFile(s) : s \in SeqsUpTo(GrowLines, MaxGrow)}

BadFileSystems == {OneFile(s) : s \in SeqsUpTo(BadLines, MaxBad)}
IncludeFileSystems ==
  {Tree(m, s) : m \in SeqsUpTo(IncMainLines, MaxIncMain),
                s \in SeqsUpTo(IncSubLines, MaxIncSub)}

\* ----------------------------------------------------------- specification
\* __init__: empty store and buffer; the files are whatever is on disk.
Init ==
  /\ \/ \E n \in 1..MaxLines : NestedFile(n)
     \/ fs \in RawFileSystems
     \/ fs \in IncludeFileSystems
     \/ fs \in VarFileSystems
     \/ fs \in CondFileSystems
     \/ fs \in BadFileSystems
     \/ fs \in ExprFileSystems
  /\ pc = "idle"
  /\ variables = << >>
  /\ output_buffer = <<>>
  /\ stack = <<>>
  /\ result = [kind |-> "none", text |-> <<>>]
  /\ trace = <<>>

Next ==
  \/ execute
  \/ SkipBlank
  \/ DoSet
  \/ DoLog
  \/ DoInclude
  \/ DoIf
  \/ DoElseIf
  \/ DoElse
  \/ DoEndIf
  \/ DoForeach
  \/ DoEndForeach
  \/ DoLiteral
  \/ Return

Spec == Init /\ [][Next]_vars

\* execute runs on one thread without yielding (no await, no callback): once
\* called, the interpreter keeps taking steps until the call returns.
InitFair ==
  /\ fs \in TermFileSystems \cup GrowFileSystems \cup BadFileSystems
             \cup ExprFileSystems
  /\ pc = "idle"
  /\ variables = << >>
  /\ output_buffer = <<>>
  /\ stack = <<>>
  /\ result = [kind |-> "none", text |-> <<>>]
  /\ trace = <<>>

SpecFair == InitFair /\ [][Next]_vars /\ WF_vars(Next)

\* The same interpreter object used for up to MaxRuns calls of execute.
NextRerun == Next \/ execute_again

SpecRerun == Init /\ [][NextRerun]_vars

TypeOK ==
  /\ pc \in {"idle", "running", "done"}
  /\ Len(stack) <= MaxDepth
  /\ (pc = "running") = (stack # <<>>)

\* ------------------------------------------------- script structure (4.4)
\* The nesting the specification's Block Matcher prescribes, on the lines L
\* of a file (positions are 1-based line numbers).
RawKind(l) == IF l = <<>> THEN "blank" ELSE Directive(l)

\* first line at or after q that closes (closers) or continues (stops) the
\* block open at q, counting nested blocks of the same family; 0 if none
RECURSIVE OwnTerminator(_, _, _, _, _, _)
OwnTerminator(L, q, depth, openers, stops, closers) ==
  IF q > Len(L) THEN 0
  ELSE LET k == RawKind(L[q])
       IN IF k \in openers
          THEN OwnTerminator(L, q + 1, depth + 1, openers, stops, closers)
          ELSE IF k \in closers
          THEN IF depth = 0 THEN q
               ELSE OwnTerminator(L, q + 1, depth - 1, openers, stops, closers)
          ELSE IF k \in stops /\ depth = 0 THEN q
          ELSE OwnTerminator(L, q + 1, depth, openers, stops, closers)

\* for the @if / @elseif / @else at line p: its next sibling or @endif
IfNext(L, p) == OwnTerminator(L, p + 1, 0, {"if"}, {"elseif", "else"}, {"endif"})
\* ... and the @endif of its chain
IfEnd(L, p) == OwnTerminator(L, p + 1, 0, {"if"}, {}, {"endif"})
\* for the @foreach at line p: its own @endforeach
ForeachEnd(L, p) == OwnTerminator(L, p + 1, 0, {"foreach"}, {}, {"endforeach"})

Last == trace[Len(trace)]
IsDispatch(ev) == ev.op \notin {"execute", "return"}
NoException ==
  \A t \in 1..Len(trace) : trace[t].r \notin {"RecursionError", "ZeroDivisionError"}

\* L is properly nested: every @elseif/@else/@endif/@endforeach closes or
\* continues the innermost open block, and nothing stays open.
RECURSIVE Balanced(_, _, _)
Balanced(L, q, open) ==
  IF q > Len(L) THEN open = <<>>
  ELSE LET k == RawKind(L[q])
           inner == open[Len(open)]
           popped == SubSeq(open, 1, Len(open) - 1)
       IN CASE k \in {"if", "foreach"} -> Balanced(L, q + 1, Append(open, k))
            [] k = "elseif" -> open # <<>> /\ inner = "if" /\ Balanced(L, q + 1, open)
            [] k = "else" -> /\ open # <<>>
                             /\ inner = "if"
                             /\ Balanced(L, q + 1, Append(popped, "else"))
            [] k = "endif" -> /\ open # <<>>
                              /\ inner \in {"if", "else"}
                              /\ Balanced(L, q + 1, popped)
            [] k = "endforeach" -> /\ open # <<>>
                                   /\ inner = "foreach"
                                   /\ Balanced(L, q + 1, popped)
            [] OTHER -> Balanced(L, q + 1, open)

\* the lines of a body a..b that an execution of the body dispatches itself:
\* those outside every block nested in the body, block terminators excluded
TopLevel(L, a, b) ==
  {q \in a..b :
     /\ RawKind(L[q]) \notin {"elseif", "else", "endif", "endforeach", "blank"}
     /\ Cardinality({r \in a..(q - 1) : RawKind(L[r]) \in {"if", "foreach"}})
          = Cardinality({r \in a..(q - 1) : RawKind(L[r]) \in {"endif", "endforeach"}})}

\* trace[t] is the dispatch of line q of file f
DispatchAt(t, f, q) == IsDispatch(trace[t]) /\ trace[t].f = f /\ trace[t].n = q

\* One execution of the block opened by the line dispatched at trace[t]
\* lasts until that line is dispatched again (or the execution ends).
WindowEnd(t) ==
  LET again == {u \in (t + 1)..Len(trace) : DispatchAt(u, trace[t].f, trace[t].n)}
  IN IF again = {} THEN Len(trace)
     ELSE (CHOOSE u \in again : \A v \in again : u <= v) - 1

CountIn(t, w, f, q) == Cardinality({u \in t..w : DispatchAt(u, f, q)})

\* C1: in every @if chain, once a branch has been taken (its condition was
\* true, or it is the @else), the dispatch loop resumes right after the
\* chain's @endif, so no later sibling branch of the chain is executed.
C1_OneBranchPerChain ==
  \A k \in 1..Len(stack) :
    LET fr == stack[k]
        L == fs[fr.file]
        p == fr.off + fr.i + 1
    IN (fr.wait.kind = "block" /\ IfEnd(L, p) # 0)
         => fr.off + fr.wait.next_i = IfEnd(L, p)

\* C2: when the body of an @if / @elseif branch contains a nested @if, the
\* branch's block ends at the branch's own depth-0 @elseif/@else/@endif:
\* that is the line consumed as terminator when the condition is true, and
\* the line the dispatch loop continues at when the condition is false.
C2_IfDepthCorrect ==
  (trace # <<>> /\ Last.op \in {"if", "elseif"} /\ Last.r \in {"true", "false"})
    => LET L == fs[Last.f]
           p == Last.n
           m == IfNext(L, p)
           nested == \E q \in (p + 1)..(m - 1) : RawKind(L[q]) = "if"
       IN (m # 0 /\ nested)
            => IF Last.r = "true"
               THEN stack[Len(stack) - 1].off + stack[Len(stack) - 1].wait.next_i = m
               ELSE top.off + top.i + 1 = m

\* C3: when the body of a @foreach contains a nested @foreach, the outer
\* body extends to the outer loop's own @endforeach: that is the line
\* consumed as terminator of the block that is run once per element.
C3_ForeachDepthCorrect ==
  (trace # <<>> /\ Last.op = "foreach" /\ Last.r = "loop")
    => LET L == fs[Last.f]
           p == Last.n
           m == ForeachEnd(L, p)
           nested == \E q \in (p + 1)..(m - 1) : RawKind(L[q]) = "foreach"
       IN (m # 0 /\ nested)
            => stack[Len(stack) - 1].off + stack[Len(stack) - 1].wait.next_i = m

\* C4: for a chain whose branch bodies contain no nested @if, in every
\* execution of the chain (a) the body of a branch whose condition evaluated
\* false is not executed, (b) the body of the first branch whose condition
\* is true is executed exactly once, (c) if every condition is false the
\* @else body, when there is one, is executed exactly once.  Checked on
\* completed executions of properly nested scripts that raised no exception.
C4_ChainHolds(t) ==
  LET ev == trace[t]
      L == fs[ev.f]
      p == ev.n
      e == IfEnd(L, p)
      B == {p} \cup {q \in (p + 1)..(e - 1) : RawKind(L[q]) \in {"elseif", "else"}}
      nxt(b) == CHOOSE q \in (B \cup {e}) :
                  q > b /\ \A q2 \in (B \cup {e}) : q2 > b => q <= q2
      body(b) == TopLevel(L, b + 1, nxt(b) - 1)
      w == WindowEnd(t)
      evalAt(b, r) == \E u \in t..w : /\ trace[u].op \in {"if", "elseif"}
                                      /\ trace[u].f = ev.f
                                      /\ trace[u].n = b
                                      /\ trace[u].r = r
      conds == {b \in B : RawKind(L[b]) \in {"if", "elseif"}}
      elses == B \ conds
      times(b, c) == \A q \in body(b) : CountIn(t, w, ev.f, q) = c
  IN (/\ Balanced(L, 1, <<>>)
      /\ e # 0
      /\ \A q \in (p + 1)..(e - 1) : RawKind(L[q]) # "if")
     => /\ \A b \in conds : evalAt(b, "false") => times(b, 0)
        /\ \A b \in conds :
             (evalAt(b, "true") /\ \A b2 \in conds : b2 < b => evalAt(b2, "false"))
               => times(b, 1)
        /\ (\A b \in conds : evalAt(b, "false")) => \A b \in elses : times(b, 1)

C4_ChainInOrder ==
  (pc = "done" /\ result.kind = "ok" /\ NoException)
    => \A t \in 1..Len(trace) : trace[t].op = "if" => C4_ChainHolds(t)

\* C5: a @foreach over a list, map or string of n elements whose body holds
\* no nested @foreach runs its body exactly n times, the k-th time with the
\* loop variable bound to the k-th element; with n = 0 the body is not run
\* and the line after @endforeach is next.  Checked on completed executions
\* of properly nested scripts that raised no exception.
C5_LoopHolds(t) ==
  LET ev == trace[t]
      L == fs[ev.f]
      p == ev.n
      m == ForeachEnd(L, p)
      il == interpolate_variables(L[p], ev.env)
      loop_var == il[2]
      items == Items(Eval(Rest(il, 4), ev.env).v)
      w == WindowEnd(t)
      firsts == {u \in t..w : DispatchAt(u, ev.f, p + 1)}
  IN (/\ Balanced(L, 1, <<>>)
      /\ m # 0
      /\ \A q \in (p + 1)..(m - 1) : RawKind(L[q]) # "foreach")
     => /\ \A q \in TopLevel(L, p + 1, m - 1) : CountIn(t, w, ev.f, q) = Len(items)
        /\ (p + 1) \in TopLevel(L, p + 1, m - 1)
             => \A u \in firsts :
                  LET k == Cardinality({v \in firsts : v <= u})
                  IN /\ k <= Len(items)
                     /\ loop_var \in DOMAIN trace[u].env
                     /\ trace[u].env[loop_var] = items[k]
        /\ (Len(items) = 0 /\ IsDispatch(trace[t + 1]))
             => trace[t + 1].f = ev.f /\ trace[t + 1].n = m + 1

C5_ForeachCount ==
  (pc = "done" /\ result.kind = "ok" /\ NoException)
    => \A t \in 1..Len(trace) :
         (trace[t].op = "foreach" /\ trace[t].r \in {"loop", "empty"})
           => C5_LoopHolds(t)

\* C6: when a @foreach over a non-empty collection finishes, the loop
\* variable is in the Variable Store and holds the last element it was bound
\* to, unless the body wrote to that name after the last binding.
LoopFinishes ==
  /\ pc = "running"
  /\ Len(stack) >= 2
  /\ top.i >= Len(top.lines)
  /\ stack[Len(stack) - 1].wait.kind = "foreach"
  /\ stack[Len(stack) - 1].wait.rest = <<>>

C6_LoopVarRetained ==
  [][(LoopFinishes /\ ~stack[Len(stack) - 1].wait.dirty)
       => LET w == stack[Len(stack) - 1].wait
          IN /\ w.loop_var \in DOMAIN variables'
             /\ variables'[w.loop_var] = w.cur
             /\ stack'[Len(stack')].i = w.next_i]_vars

\* a loop over [1,2] has just finished in a script that had set i to 9
\* before the loop: i is 2, neither removed nor back to 9
C6_Witness ==
  /\ Len(trace) >= 3
  /\ trace[2].op = "set"
  /\ trace[2].r = "i"
  /\ trace[3].op = "foreach"
  /\ Last.op = "return"
  /\ Last.r = "foreach"
  /\ variables = [n \in {"i"} |-> Val("num", <<"2">>)]

\* C7: the active-inclusion stack (the main file and the files entered by
\* @include that have not finished) never holds the same path twice.
FileFrames == {k \in 1..Len(stack) : stack[k].off = 0 /\ stack[k].lines = fs[stack[k].file]
                                       /\ (k = 1 \/ stack[k - 1].wait.kind = "include")}

C7_NoReentry ==
  \A j, k \in FileFrames : j < k => stack[j].file # stack[k].file

\* C8: dispatching an @if, @elseif, @else or @foreach that has no matching
\* terminator in the rest of its file aborts the execution: execute returns
\* an error and nothing more is appended to the output.
\* line p continues a chain: an @if precedes it with no @endif in between
InChain(L, p) ==
  \E q \in 1..(p - 1) :
    RawKind(L[q]) = "if" /\ \A r \in (q + 1)..(p - 1) : RawKind(L[r]) # "endif"

OpensUnterminated ==
  /\ AtLine
  /\ stripped_line # <<>>
  /\ LET il == interpolated_line
         k == Directive(il)
         L == fs[top.file]
         p == top.off + top.i + 1
     IN \/ k = "if" /\ IfNext(L, p) = 0
        \/ k = "elseif" /\ IfNext(L, p) = 0 /\ InChain(L, p)
        \/ k = "else" /\ IfEnd(L, p) = 0 /\ InChain(L, p)
        \/ k = "foreach" /\ Len(il) >= 4 /\ il[3] = "in" /\ ForeachEnd(L, p) = 0

C8_UnterminatedIsFatal ==
  [][OpensUnterminated
       => (pc' = "done" /\ result'.kind = "error" /\ output_buffer' = output_buffer)]_vars

\* C9: an @include whose resolved target does not exist aborts the
\* execution: execute returns an error and no later line is executed.
C9_MissingIncludeIsFatal ==
  (trace # <<>> /\ Last.op = "include" /\ Last.r = "missing")
    => (pc = "done" /\ result.kind = "error" /\ stack = <<>>)

\* C10: every @include, at any depth and inside any block, resolves its path
\* against the directory of the file that holds the @include line: the file
\* entered is that path, it is reported missing only if that path is, and
\* the lines of every file and block run with their own file's directory.
C10_IncludeRelativeToOwnFile ==
  /\ \A k \in 1..Len(stack) : stack[k].base_dir = dirname(stack[k].file)
  /\ (trace # <<>> /\ Last.op = "include" /\ Last.r \in {"entered", "missing"})
       => LET il == interpolate_variables(fs[Last.f][Last.n], Last.env)
              own == abspath(join(dirname(Last.f), PathOf(il[2])))
          IN IF Last.r = "entered"
             THEN top.file = own /\ top.lines = fs[own] /\ top.i = 0
             ELSE own \notin DOMAIN fs

\* main includes "s/b"; /s/b included "c" from inside a @foreach block and
\* got /s/c; /s/b has finished and main's next line includes "c": it gets /c
C10_Witness ==
  /\ Len(trace) >= 2
  /\ Last.op = "include"
  /\ Last.r = "entered"
  /\ Last.f = MainPath
  /\ top.file = <<"c">>
  /\ \E t \in 1..(Len(trace) - 1) :
       /\ trace[t].op = "include"
       /\ trace[t].r = "entered"
       /\ trace[t].f = <<"s", "b">>
       /\ trace[t].n = 2
       /\ RawKind(fs[<<"s", "b">>][1]) = "foreach"
       /\ trace[t + 1].f = <<"s", "c">>

\* the names the step about to be taken may bind: the NAME of a @set, the
\* VAR of a @foreach, the loop variable of the loop an ending body returns to
BoundByStep ==
  IF AtLine /\ stripped_line # <<>>
     /\ Directive(interpolated_line) \in {"set", "foreach"}
     /\ Len(interpolated_line) >= 2
  THEN {interpolated_line[2]}
  ELSE IF /\ pc = "running"
          /\ Len(stack) >= 2
          /\ top.i >= Len(top.lines)
          /\ stack[Len(stack) - 1].wait.kind = "foreach"
  THEN {stack[Len(stack) - 1].wait.loop_var}
  ELSE {}

C12_FreshExecution ==
  (trace # <<>> /\ Last.op = "execute")
    => (DOMAIN variables = {} /\ output_buffer = <<>>)

\* the line about to be dispatched is non-blank and its source text does not
\* start with '@'
AtLiteralSource ==
  AtLine /\ stripped_line # <<>> /\ ~startswith(stripped_line, "@")

\* C13: every executed non-blank line whose source text does not start with
\* '@' is a literal line: it appends exactly one entry, its interpolated
\* text, to the output buffer and leaves the Variable Store unchanged,
\* whatever the values it interpolates; it is never executed as a directive.
C13_LiteralNeverDirective ==
  [][AtLiteralSource =>
       /\ output_buffer' = Append(output_buffer, interpolated_line)
       /\ variables' = variables]_vars

\* the entry the line about to be dispatched appends, when it is a @log or a
\* literal line
EntryOfLine ==
  IF Directive(interpolated_line) = "log"
  THEN Rest(interpolated_line, 2) ELSE interpolated_line

\* C14: during one execution the output buffer is ordered and append-only:
\* every step leaves the buffer unchanged or extends it at its end, by the
\* one entry of the @log or literal line that step executes (nothing is
\* removed, rewritten or reordered, so entries stand in execution order),
\* and on normal completion execute returns the newline-joined buffer.
C14_AppendOnlyOrdered ==
  [][/\ output_buffer' # output_buffer =>
          /\ AtLine
          /\ stripped_line # <<>>
          /\ Directive(interpolated_line) \in {"log", "other"}
          /\ output_buffer' = Append(output_buffer, EntryOfLine)
     /\ (pc' = "done" /\ result'.kind = "ok") =>
          result'.text = NewlineJoin(output_buffer')]_vars

\* a completed execution whose buffer holds the entry of a @log executed in
\* an included file followed by the entry of the literal line after the
\* @include, returned newline-joined
C14_Witness ==
  /\ pc = "done"
  /\ result.kind = "ok"
  /\ output_buffer = << <<"in", "c">>, <<"X", "{UNDEFINED_OR_INVALID_VAR:i}">> >>
  /\ result.text = <<"in", "c", "\n", "X", "{UNDEFINED_OR_INVALID_VAR:i}">>
  /\ \E t \in 1..Len(trace), u \in 1..Len(trace) :
       t < u /\ trace[t].op = "log" /\ trace[u].op = "literal"

\* trace[t] is the dispatch of an @if / @elseif whose condition failed to
\* evaluate against the store of that moment (an undefined name, ...)
ConditionFails(t) ==
  /\ trace[t].op \in {"if", "elseif"}
  /\ LET il == interpolate_variables(fs[trace[t].f][trace[t].n], trace[t].env)
     IN Eval(Rest(il, 2), trace[t].env).err # ""

\* C15: an @if / @elseif whose condition fails to evaluate is treated as a
\* false condition: the execution is not aborted, no line of the branch's
\* body is executed, and the next line dispatched is the chain's next
\* sibling branch or its @endif.
C15_FailsAt(t) ==
  LET ev == trace[t]
      L == fs[ev.f]
      p == ev.n
      m == IfNext(L, p)
  IN /\ ev.r = "false"
     /\ m # 0 =>
          /\ \A u \in (t + 1)..WindowEnd(t) :
               ~(/\ IsDispatch(trace[u])
                 /\ trace[u].f = ev.f
                 /\ trace[u].n \in (p + 1)..(m - 1))
          /\ (t < Len(trace) /\ IsDispatch(trace[t + 1]))
               => (trace[t + 1].f = ev.f /\ trace[t + 1].n = m)

C15_FailingConditionIsFalse ==
  \A t \in 1..Len(trace) : ConditionFails(t) => C15_FailsAt(t)

\* the text a rendered line shows for the span tok when its name is absent
NamesFailedReference(tok) ==
  IF tok = "{i}" THEN "{UNDEFINED_OR_INVALID_VAR:i}"
                 ELSE "{UNDEFINED_OR_INVALID_VAR:x}"

\* the line about to be dispatched is a literal line that holds the span tok
\* and the name inside tok is absent from the store
AbsentSpan(tok) ==
  /\ AtLiteralSource
  /\ \E k \in 1..Len(stripped_line) : stripped_line[k] = tok
  /\ SpanExpr(tok)[1] \notin DOMAIN variables

\* C16: a literal line holding {name} with name absent from the Variable
\* Store appends one entry to the output, the line with a placeholder
\* that names the failed reference in place of the span; the store is
\* unchanged and execution goes on with the following line.
C16_PlaceholderForAbsentName ==
  [][\A tok \in SpanToks :
       AbsentSpan(tok) =>
         /\ Len(output_buffer') = Len(output_buffer) + 1
         /\ SubSeq(output_buffer', 1, Len(output_buffer)) = output_buffer
         /\ \E k \in 1..Len(output_buffer'[Len(output_buffer')]) :
              output_buffer'[Len(output_buffer')][k] = NamesFailedReference(tok)
         /\ variables' = variables
         /\ pc' = "running"
         /\ Len(stack') = Len(stack)
         /\ stack'[Len(stack')].i = top.i + 1]_vars

\* the arguments of a @prompt written as the script syntax has them:
\* an optional quoted text, then an optional json_decode=true|false
PromptSyntax(args) ==
  LET flags == {"json_decode=true", "json_decode=false"}
  IN \/ args = <<>>
     \/ Len(args) = 1 /\ args[1] \in StrLits \cup flags
     \/ Len(args) = 2 /\ args[1] \in StrLits /\ args[2] \in flags

\* a directive line that does not have the syntax of its directive:
\* @set NAME = VALUE | @prompt ..., @include "PATH", @foreach VAR in EXPR
Malformed(il) ==
  CASE Directive(il) = "set" ->
         \/ ~(Len(il) >= 4 /\ IsWord(il[2]) /\ il[3] = "=")
         \/ il[4] = "@prompt" /\ ~PromptSyntax(Rest(il, 5))
    [] Directive(il) = "include" -> ~(Len(il) = 2 /\ il[2] \in PathToks)
    [] Directive(il) = "foreach" ->
         ~(Len(il) >= 4 /\ IsWord(il[2]) /\ il[3] = "in")
    [] OTHER -> FALSE

\* C17: a directive line with malformed syntax (@set without NAME = VALUE,
\* @include without a quoted path, @foreach without VAR in EXPR, @set with
\* a malformed @prompt) is skipped: the Variable Store and the output
\* buffer are unchanged and execution continues with the next line.
C17_MalformedIsSkipped ==
  [][(AtLine /\ stripped_line # <<>> /\ Malformed(interpolated_line)) =>
       /\ variables' = variables
       /\ output_buffer' = output_buffer
       /\ pc' = "running"
       /\ Len(stack') = Len(stack)
       /\ stack'[Len(stack')].i = top.i + 1]_vars

\* the line about to be dispatched is a @foreach VAR in EXPR whose EXPR
\* evaluates to a value that is no list, map or string
AtForeachOverScalar ==
  /\ AtLine
  /\ stripped_line # <<>>
  /\ Directive(interpolated_line) = "foreach"
  /\ ~Malformed(interpolated_line)
  /\ LET r == Eval(Rest(interpolated_line, 4), variables)
     IN r.err = "" /\ r.v.t \notin {"list", "dict", "str"}

\* C18: a @foreach whose collection evaluates to a value that is not a
\* list, map or string is a fatal directive error: the execution is
\* aborted, the loop is not skipped with execution continuing after
\* @endforeach.
C18_ScalarForeachIsFatal ==
  [][AtForeachOverScalar => (pc' = "done" /\ result'.kind = "error")]_vars

\* a response without the code fence that surrounds it: the text between an
\* opening fence at its start and the closing fence at its end; a response
\* that no fence surrounds is left as it is
WithoutSurroundingFence(text) ==
  IF Len(text) >= 2 /\ text[1] \in FenceOpen /\ text[Len(text)] = "[fence]"
  THEN SubSeq(text, 2, Len(text) - 1)
  ELSE text

\* the line about to be dispatched is @set NAME = @prompt ... json_decode=true
AtPromptWithDecode ==
  /\ AtLine
  /\ stripped_line # <<>>
  /\ Directive(interpolated_line) = "set"
  /\ ~Malformed(interpolated_line)
  /\ interpolated_line[4] = "@prompt"
  /\ interpolated_line[Len(interpolated_line)] = "json_decode=true"

\* C19: for @set NAME = @prompt ... json_decode=true, when the provider's
\* response without its surrounding code fence parses as JSON, NAME is
\* bound to the decoded value, otherwise NAME is bound to the raw response
\* text; no other variable changes and execution continues with the next
\* line.
C19_JsonDecodeBinding ==
  [][\A id \in ResponseIds :
       (AtPromptWithDecode /\ trace' = Append(trace, Event("prompt", id))) =>
         LET decoded == json_loads(WithoutSurroundingFence(Response(id)))
         IN /\ variables' =
                 StoreSet(variables, interpolated_line[2],
                          IF decoded.err = "" THEN decoded.v
                          ELSE Val("str", Response(id)))
            /\ pc' = "running"
            /\ Len(stack') = Len(stack)
            /\ stack'[Len(stack')].i = top.i + 1]_vars

\* the categories of the Value Model: what an expression of the restricted
\* grammar (literals, names, indexing, comparisons, connectives, arithmetic)
\* can evaluate to
ValueCategories == {"none", "bool", "num", "str", "list", "dict"}

\* C20: expressions in script text are evaluated by a restricted grammar,
\* never by the host language's evaluator, so no script text reaches a host
\* built-in or host object: every value in the Variable Store is a value of
\* the Value Model.
C20_NoHostAccess ==
  \A n \in DOMAIN variables : variables[n].t \in ValueCategories

\* the line about to be dispatched is @set NAME = EXPR as the script has
\* it, EXPR being no @prompt and having a value against the current store
AtSetOfExpression ==
  /\ AtLine
  /\ Len(stripped_line) >= 4
  /\ stripped_line[1] = "@set"
  /\ IsWord(stripped_line[2])
  /\ stripped_line[3] = "="
  /\ stripped_line[4] # "@prompt"
  /\ \/ Len(stripped_line) = 4 /\ stripped_line[4] \in StrLits
     \/ Eval(Rest(stripped_line, 4), variables).err = ""

\* the value of the expression EXPR written in the script
ValueOfExpression(expr, store) ==
  IF Len(expr) = 1 /\ expr[1] \in StrLits
  THEN Val("str", Unquote(expr[1]))
  ELSE Eval(expr, store).v

\* C21: @set NAME = EXPR, EXPR no @prompt, binds NAME to the value of EXPR
\* as written in the script, evaluated against the current store, for every
\* expression form, map and list literals included: the interpolation of
\* the whole line does not alter the expression; no other name changes.
C21_SetBindsValueOfExpression ==
  [][AtSetOfExpression =>
       variables' = StoreSet(variables, stripped_line[2],
                             ValueOfExpression(Rest(stripped_line, 4), variables))]_vars

\* no line of the script starts with @include
NoIncludeInScript ==
  \A f \in DOMAIN fs : \A k \in 1..Len(fs[f]) : ~startswith(fs[f][k], "@include")

\* One step of the dispatch loop or one return, seen from the call depth d
\* it is taken at: the line index of a call never goes back and moves
\* forward whenever the call goes on, a block handed to a recursive call is
\* shorter than the lines of the call that hands it over, and a @foreach
\* walks the elements its collection had when the loop started.
StepAdvances ==
  LET d == Len(stack)
      d2 == Len(stack')
  IN IF AtLine
     THEN \/ pc' = "done"
          \/ d2 = d /\ stack'[d].i > top.i
          \/ /\ d2 = d + 1
             /\ stack'[d].i = top.i
             /\ stack'[d].wait.next_i > top.i
             /\ Len(stack'[d2].lines) < Len(top.lines)
             /\ stack'[d2].i = 0
             /\ stack'[d].wait.kind = "foreach" =>
                  <<stack'[d].wait.cur>> \o stack'[d].wait.rest
                    = Items(Eval(Rest(interpolated_line, 4), variables).v)
          \/ d2 < d /\ d2 >= 1 /\ stack'[d2].i > stack[d2].i
     ELSE IF pc = "running"
     THEN \/ pc' = "done" /\ d = 1
          \/ /\ d2 = d
             /\ stack'[d].i = 0
             /\ stack[d - 1].wait.kind = "foreach"
             /\ stack'[d - 1].i = stack[d - 1].i
             /\ stack'[d - 1].wait.rest = Tail(stack[d - 1].wait.rest)
             /\ stack'[d - 1].wait.cur = Head(stack[d - 1].wait.rest)
          \/ d2 = d - 1 /\ d2 >= 1 /\ stack'[d2].i > stack[d2].i
     ELSE TRUE

\* the elements still to come in a running @foreach never become more
CollectionsFixed ==
  \A k \in 1..Len(stack) :
    (k <= Len(stack') /\ stack[k].wait.kind = "foreach"
                      /\ stack'[k].wait.kind = "foreach")
      => Len(stack'[k].wait.rest) <= Len(stack[k].wait.rest)

\* C22: the execution of a script without @include terminates: in every
\* iteration of the dispatch loop the line index strictly increases (after
\* a true or false @if/@elseif, an @else, a @foreach, and when a terminator
\* is missing, too), every block handed to a recursive call is strictly
\* shorter than the enclosing line sequence, each @foreach iterates the
\* finite collection fixed when the loop starts, and execute returns.
C22_Terminates ==
  /\ [][NoIncludeInScript => (StepAdvances /\ CollectionsFixed)]_vars
  /\ NoIncludeInScript => <>(pc = "done")

\* a script without @include has returned normally after a @foreach over
\* two elements whose body, a true @if with no terminator after it, ran in
\* both iterations
C22_Witness ==
  /\ pc = "done"
  /\ result.kind = "ok"
  /\ NoIncludeInScript
  /\ fs[MainPath] = <<<<"@foreach", "i", "in", "[1,2]">>, <<"@if", "i">>,
                      <<"@log", "X", "{i}">>>>
  /\ output_buffer = << <<"X", "1">>, <<"X", "2">> >>

====
